---- MODULE Spec2Model ----
(***************************************************************************)
(* A model of tenzir_exporter.py: AppMetrics.fetch, the Flask view that    *)
(* turns a POSTed batch of concatenated JSON records into Prometheus       *)
(* metric updates and pushes the registry to a push gateway.               *)
(*                                                                         *)
(* Text is a sequence of units.  A unit is one character ("{", "7", "m")   *)
(* or a word: a run of characters without any brace, bracket, comma,       *)
(* colon, quote or line break, written as one unit ("queued_partitions").  *)
(* Strings the code looks into character by character (the duration        *)
(* tokens) are always written one character per unit.                      *)
(***************************************************************************)
EXTENDS Integers, Sequences, FiniteSets, TLC

VARIABLES
    pc,           \* per request: where its thread stands in fetch
    body,         \* per request: request.data
    sent,         \* per request: the records the client wrote into the body
    status_data,  \* self.status_data, one attribute of the one AppMetrics
    parsed_from,  \* per request: the value of self.status_data it parsed
    parsed_data,  \* per request: the local parsed_data
    idx,          \* per request: the position of the for loop
    events,       \* per request: its loop bodies and pushes, in order
    result,       \* per request: what fetch gave its caller
    registry,     \* self.registry: the samples of every metric
    gateway,      \* what the push gateway last received
    split_in,     \* the batch given to the split step on its own
    split_out,    \* what the split step made of it
    norm_in,      \* the duration token given to the normalization
    norm_out      \* what the normalization made of it

vars == <<pc, body, sent, status_data, parsed_from, parsed_data, idx,
          events, result, registry, gateway, split_in, split_out,
          norm_in, norm_out>>

fetchVars == <<pc, body, sent, status_data, parsed_from, parsed_data, idx,
               events, result, registry, gateway>>

-----------------------------------------------------------------------------
(* Bounds *)

\* Records in all the bodies sent, together.
MaxRecords == 2

\* Objects in a batch given to the split step on its own.
MaxSplitObjects == 2

-----------------------------------------------------------------------------
(* Text *)

Quote == "\""

NL == "\n"

Digit == {"0", "1", "2", "3", "4", "5", "6", "7", "8", "9"}

DigitVal == [d \in Digit |->
    CASE d = "0" -> 0 [] d = "1" -> 1 [] d = "2" -> 2 [] d = "3" -> 3
      [] d = "4" -> 4 [] d = "5" -> 5 [] d = "6" -> 6 [] d = "7" -> 7
      [] d = "8" -> 8 [] d = "9" -> 9]

DigitOf(n) ==
    CASE n = 0 -> "0" [] n = 1 -> "1" [] n = 2 -> "2" [] n = 3 -> "3"
      [] n = 4 -> "4" [] n = 5 -> "5" [] n = 6 -> "6" [] n = 7 -> "7"
      [] n = 8 -> "8" [] n = 9 -> "9"

LowerCase == {"a", "b", "c", "d", "e", "f", "g", "h", "i", "j", "k", "l", "m",
              "n", "o", "p", "q", "r", "s", "t", "u", "v", "w", "x", "y", "z"}

UpperCase == {"A", "B", "C", "D", "E", "F", "G", "H", "I", "J", "K", "L", "M",
              "N", "O", "P", "Q", "R", "S", "T", "U", "V", "W", "X", "Y", "Z"}

RECURSIVE Flatten(_, _, _)
\* parts[lo] \o ... \o parts[hi]
Flatten(parts, lo, hi) ==
    IF lo > hi THEN <<>>
    ELSE IF lo = hi THEN parts[lo]
    ELSE LET mid == (lo + hi) \div 2 IN
         Flatten(parts, lo, mid) \o Flatten(parts, mid + 1, hi)

\* "".join(parts)
Concat(parts) == Flatten(parts, 1, Len(parts))

\* str.splitlines(): the lines without their line breaks; a final line break
\* opens no further line.
SplitLines(text) ==
    LET breaks == {i \in 1..Len(text) : text[i] = NL}
        n      == Cardinality(breaks)
        nth(k) == CHOOSE i \in breaks : Cardinality({j \in breaks : j <= i}) = k
        open   == Len(text) > 0 /\ text[Len(text)] # NL
        first(k) == IF k = 1 THEN 1 ELSE nth(k - 1) + 1
        end(k)   == IF k <= n THEN nth(k) - 1 ELSE Len(text)
    IN  [k \in 1..(n + IF open THEN 1 ELSE 0) |-> SubSeq(text, first(k), end(k))]

\* text.replace("}{", "},{"): every occurrence, left to right, wherever it
\* is (no two occurrences overlap).
ReplaceBraces(text) ==
    Flatten([i \in 1..Len(text) |->
                IF text[i] = "}" /\ i < Len(text) /\ text[i + 1] = "{"
                THEN <<"}", ",">> ELSE <<text[i]>>],
            1, Len(text))

\* "[" + "".join(lines).replace("}{", "},{") + "]"
Repair(lines) == <<"[">> \o ReplaceBraces(Concat(lines)) \o <<"]">>

-----------------------------------------------------------------------------
(* JSON values: numbers, strings, objects (Python dict) and arrays (list) *)

Num(n) == [t |-> "num", n |-> n]

Str(s) == [t |-> "str", s |-> s]

Obj(o) == [t |-> "obj", o |-> o]

Arr(a) == [t |-> "arr", a |-> a]

\* A dict is a function from its keys, each the text of the key.
K(name) == <<name>>

EmptyDict == <<>>

\* d[key] = value on a dict: a key written twice keeps the later value.
DictSet(d, key, value) ==
    [k \in DOMAIN d \cup {key} |-> IF k = key THEN value ELSE d[k]]

ParseFail == [ok |-> FALSE]

ParseOk(v, pos) == [ok |-> TRUE, val |-> v, pos |-> pos]

RECURSIVE CountDigits(_, _)
\* The number of digits of text from position i on.
CountDigits(text, i) ==
    IF i <= Len(text) /\ text[i] \in Digit THEN 1 + CountDigits(text, i + 1) ELSE 0

RECURSIVE DigitsValue(_, _, _)
\* The number written by the n digits of text from position i on.
DigitsValue(text, i, n) ==
    IF n = 0 THEN 0
    ELSE 10 * DigitsValue(text, i, n - 1) + DigitVal[text[i + n - 1]]

RECURSIVE ScanString(_, _, _)
\* The scanner of a string, past its opening quote.
ScanString(text, i, acc) ==
    IF i > Len(text) THEN ParseFail
    ELSE IF text[i] = Quote THEN ParseOk(Str(acc), i + 1)
    ELSE ScanString(text, i + 1, Append(acc, text[i]))

\* The scanner of a number: digits, with no leading zero.
ScanNumber(text, i) ==
    LET n == CountDigits(text, i) IN
    IF n = 0 \/ (n > 1 /\ text[i] = "0") THEN ParseFail
    ELSE ParseOk(Num(DigitsValue(text, i, n)), i + n)

RECURSIVE ScanValue(_, _)
RECURSIVE ScanMembers(_, _, _)
RECURSIVE ScanElements(_, _, _)

\* The members of an object, from the key at position i on.
ScanMembers(text, i, d) ==
    IF i > Len(text) \/ text[i] # Quote THEN ParseFail
    ELSE LET key == ScanString(text, i + 1, <<>>) IN
         IF ~key.ok THEN ParseFail
         ELSE IF key.pos > Len(text) \/ text[key.pos] # ":" THEN ParseFail
         ELSE LET v == ScanValue(text, key.pos + 1) IN
              IF ~v.ok \/ v.pos > Len(text) THEN ParseFail
              ELSE IF text[v.pos] = ","
                   THEN ScanMembers(text, v.pos + 1, DictSet(d, key.val.s, v.val))
              ELSE IF text[v.pos] = "}"
                   THEN ParseOk(Obj(DictSet(d, key.val.s, v.val)), v.pos + 1)
              ELSE ParseFail

\* The elements of an array, from the value at position i on.
ScanElements(text, i, a) ==
    LET v == ScanValue(text, i) IN
    IF ~v.ok \/ v.pos > Len(text) THEN ParseFail
    ELSE IF text[v.pos] = "," THEN ScanElements(text, v.pos + 1, Append(a, v.val))
    ELSE IF text[v.pos] = "]" THEN ParseOk(Arr(Append(a, v.val)), v.pos + 1)
    ELSE ParseFail

ScanValue(text, i) ==
    IF i > Len(text) THEN ParseFail
    ELSE IF text[i] = "{"
         THEN IF i < Len(text) /\ text[i + 1] = "}"
              THEN ParseOk(Obj(EmptyDict), i + 2)
              ELSE ScanMembers(text, i + 1, EmptyDict)
    ELSE IF text[i] = "["
         THEN IF i < Len(text) /\ text[i + 1] = "]"
              THEN ParseOk(Arr(<<>>), i + 2)
              ELSE ScanElements(text, i + 1, <<>>)
    ELSE IF text[i] = Quote THEN ScanString(text, i + 1, <<>>)
    ELSE IF text[i] \in Digit THEN ScanNumber(text, i)
    ELSE ParseFail

\* json.loads(text): the one value the whole text is, or JSONDecodeError.
JsonLoads(text) ==
    LET r == ScanValue(text, 1) IN
    IF r.ok /\ r.pos = Len(text) + 1 THEN [ok |-> TRUE, val |-> r.val]
    ELSE [ok |-> FALSE, exc |-> "JSONDecodeError"]

\* Lines 214-216: the split step of fetch.
SplitStep(lines) == JsonLoads(Repair(lines))

-----------------------------------------------------------------------------
(* Python values at work: subscripts, float(), str(), re.sub *)

Fine(v) == [ok |-> TRUE, v |-> v]

Thrown(exc) == [ok |-> FALSE, exc |-> exc]

\* v[key]: KeyError on a dict without the key, TypeError on a value that is
\* no dict (a str or a list takes no str index, a number no index at all).
Subscript(v, key) ==
    IF v.t # "obj" THEN Thrown("TypeError")
    ELSE IF K(key) \notin DOMAIN v.o THEN Thrown("KeyError")
    ELSE Fine(v.o[K(key)])

\* v[key1][key2]
Subscript2(v, key1, key2) ==
    LET a == Subscript(v, key1) IN
    IF ~a.ok THEN a ELSE Subscript(a.v, key2)

RECURSIVE FloatNorm(_, _)
\* The number m * 10^e, written one way only: m ends in no zero.
FloatNorm(m, e) ==
    IF m = 0 THEN [m |-> 0, e |-> 0]
    ELSE IF m % 10 = 0 THEN FloatNorm(m \div 10, e + 1)
    ELSE [m |-> m, e |-> e]

\* float(s) of a str: [sign] digits [. digits] [(e|E) [sign] digits] with a
\* digit before or after the point, and nothing else; ValueError otherwise.
ParseFloat(s) ==
    LET sgn  == IF Len(s) >= 1 /\ s[1] \in {"+", "-"} THEN 1 ELSE 0
        neg  == sgn = 1 /\ s[1] = "-"
        i0   == 1 + sgn
        ni   == CountDigits(s, i0)
        dot  == i0 + ni <= Len(s) /\ s[i0 + ni] = "."
        f0   == i0 + ni + 1
        nf   == IF dot THEN CountDigits(s, f0) ELSE 0
        m0   == IF dot THEN f0 + nf ELSE i0 + ni
        hasE == m0 <= Len(s) /\ s[m0] \in {"e", "E"}
        es   == IF hasE /\ m0 + 1 <= Len(s) /\ s[m0 + 1] \in {"+", "-"}
                THEN 1 ELSE 0
        eneg == es = 1 /\ s[m0 + 1] = "-"
        e0   == m0 + 1 + es
        ne   == IF hasE THEN CountDigits(s, e0) ELSE 0
        stop == IF hasE THEN e0 + ne ELSE m0
        mant == DigitsValue(s, i0, ni) * 10 ^ nf + DigitsValue(s, f0, nf)
        ex   == (IF eneg THEN 0 - DigitsValue(s, e0, ne)
                 ELSE DigitsValue(s, e0, ne)) - nf
    IN  IF ni + nf >= 1 /\ (hasE => ne >= 1) /\ stop = Len(s) + 1
        THEN Fine(FloatNorm(IF neg THEN 0 - mant ELSE mant, ex))
        ELSE Thrown("ValueError")

\* float(v), as Gauge.set applies it to its argument.
ToFloat(v) ==
    CASE v.t = "num" -> Fine(FloatNorm(v.n, 0))
      [] v.t = "str" -> ParseFloat(v.s)
      [] v.t \in {"obj", "arr"} -> Thrown("TypeError")

RECURSIVE NatDigits(_)
\* str(n) of an int n >= 0
NatDigits(n) ==
    IF n < 10 THEN <<DigitOf(n)>>
    ELSE Append(NatDigits(n \div 10), DigitOf(n % 10))

\* str(v), as labels() applies it to a label value (of a str or an int).
LabelText(v) ==
    CASE v.t = "str" -> v.s
      [] v.t = "num" -> NatDigits(v.n)

IsLower(c) == c \in LowerCase

\* re.sub(r"[a-z]", "", s) for the text s of a str: every a-z character goes,
\* wherever it stands.
StripLower(s) == SelectSeq(s, LAMBDA c : ~IsLower(c))

\* re.sub(reg, "", v): TypeError on a value that is no str.
ReSub(v) ==
    IF v.t # "str" THEN Thrown("TypeError") ELSE Fine(Str(StripLower(v.s)))

\* re.sub(reg, "", item[key])
ReSubItem(item, key) ==
    LET a == Subscript(item, key) IN
    IF ~a.ok THEN a ELSE ReSub(a.v)

-----------------------------------------------------------------------------
(* The metrics AppMetrics.__init__ registers *)

UnlabelledGauges ==
    {"tenzir_memory_total_bytes", "tenzir_memory_used_bytes",
     "tenzir_memory_free_bytes", "tenzir_loadavg_1m", "tenzir_loadavg_5m",
     "tenzir_loadavg_15m", "tenzir_swap_space_usage", "tenzir_open_fds",
     "tenzir_current_memory_usage", "tenzir_peak_memory_usage",
     "tenzir_ingest_events", "tenzir_rebuild_partitions",
     "tenzir_rebuild_queued_partitions"}

DiskGauges ==
    {"tenzir_disk_total_bytes", "tenzir_disk_used_bytes",
     "tenzir_disk_free_bytes"}

OperatorDurationGauges ==
    {"tenzir_operator_run", "tenzir_operator_duration",
     "tenzir_operator_starting_duration",
     "tenzir_operator_processing_duration",
     "tenzir_operator_scheduled_duration",
     "tenzir_operator_running_duration", "tenzir_operator_paused_duration"}

OperatorUnitGauges ==
    {"tenzir_operator_input_elements", "tenzir_operator_output_elements",
     "tenzir_operator_input_bytes", "tenzir_operator_output_bytes"}

UnlabelledInfos ==
    {"tenzir_ingest_schema", "tenzir_ingest_schema_id",
     "tenzir_operator_pipeline_id"}

OperatorUnitInfos ==
    {"tenzir_operator_input_unit", "tenzir_operator_output_unit"}

Gauges ==
    UnlabelledGauges \cup DiskGauges \cup OperatorDurationGauges
        \cup OperatorUnitGauges

Infos == UnlabelledInfos \cup OperatorUnitInfos

Metrics == Gauges \cup Infos

\* The labelnames each metric was declared with.
LabelNames(metric) ==
    IF metric \in DiskGauges THEN <<"path">>
    ELSE IF metric \in OperatorDurationGauges \cup OperatorUnitInfos
         THEN <<"pipeline_id">>
    ELSE IF metric \in OperatorUnitGauges THEN <<"pipeline_id", "unit">>
    ELSE <<>>

Zero == [m |-> 0, e |-> 0]

\* The value a metric, or a child that labels() makes, starts with: a Gauge
\* at 0.0, an Info with no fields.
InitialValue(metric) == IF metric \in Gauges THEN Zero ELSE EmptyDict

\* CollectorRegistry after __init__: a metric without labelnames holds its
\* one sample, a metric with labelnames holds no child yet.
InitialRegistry ==
    [metric \in Metrics |->
        IF LabelNames(metric) = <<>>
        THEN [l \in {<<>>} |-> InitialValue(metric)]
        ELSE <<>>]

\* One update of the registry: op "child" is what labels(...) does, op "set"
\* what Gauge.set does, op "info" what Info.info does.
Update(op, metric, labels, value) ==
    [op |-> op, metric |-> metric, labels |-> labels, value |-> value]

Apply(reg, up) ==
    IF up.op = "child" /\ up.labels \in DOMAIN reg[up.metric] THEN reg
    ELSE [reg EXCEPT ![up.metric] = DictSet(@, up.labels, up.value)]

RECURSIVE ApplyAll(_, _)
ApplyAll(reg, ups) ==
    IF ups = <<>> THEN reg ELSE ApplyAll(Apply(reg, Head(ups)), Tail(ups))

-----------------------------------------------------------------------------
(* The statements of the loop body.  st is what the body has done so far:  *)
(* the updates made, its locals, and the exception that ended it, if any.  *)

Fresh == [ups |-> <<>>, loc |-> EmptyDict, exc |-> "none"]

Running(st) == st.exc = "none"

Raise(st, exc) == [st EXCEPT !.exc = exc]

Emit(st, up) == [st EXCEPT !.ups = Append(@, up)]

\* local = value
Assign(st, local, value) == [st EXCEPT !.loc = DictSet(@, local, value)]

\* The statements, as the loop body writes them:
\*   self.<metric>.set(item[<key>])
SetItem(metric, key) == [k |-> "set", metric |-> metric, key |-> key]

\*   <local> = re.sub(reg, "", item[<local>])
ReSubLocal(local) == [k |-> "resub", local |-> local]

\*   self.<metric>.labels(<labels>).set(<value>)
LabelsSet(metric, labels, value) ==
    [k |-> "labels.set", metric |-> metric, labels |-> labels, value |-> value]

\*   self.<metric>.labels(<labels>).info({<field>: <value>})
LabelsInfo(metric, labels, field, value) ==
    [k |-> "labels.info", metric |-> metric, labels |-> labels,
     field |-> field, value |-> value]

\*   self.<metric>.info({<field>: <value>})
InfoOf(metric, field, value) ==
    [k |-> "info", metric |-> metric, labels |-> <<>>, field |-> field,
     value |-> value]

\* The expressions the statements hold: item[k1], item[k1][k2], a local.
At(keys) == [local |-> "", keys |-> keys]

Local(name) == [local |-> name, keys |-> <<>>]

\* The value of such an expression, or the exception it throws.
Eval(st, item, e) ==
    IF e.local # "" THEN Fine(st.loc[e.local])
    ELSE IF Len(e.keys) = 1 THEN Subscript(item, e.keys[1])
    ELSE Subscript2(item, e.keys[1], e.keys[2])

\* The first of the outcomes that threw, if any.
FirstThrown(outcomes) ==
    LET bad == {i \in 1..Len(outcomes) : ~outcomes[i].ok} IN
    IF bad = {} THEN Fine(<<>>)
    ELSE outcomes[CHOOSE i \in bad : \A j \in bad : i <= j]

\* self.<metric>.set(item[key]), on the metric itself.  Python looks up the
\* attribute set (an Info has none: AttributeError), evaluates item[key],
\* then calls set, which refuses a metric declared with labelnames that was
\* given no label values (ValueError) and applies float() to its argument.
ExecSet(st, item, s) ==
    IF s.metric \in Infos THEN Raise(st, "AttributeError")
    ELSE LET a == Subscript(item, s.key) IN
         IF ~a.ok THEN Raise(st, a.exc)
         ELSE IF LabelNames(s.metric) # <<>> THEN Raise(st, "ValueError")
         ELSE LET f == ToFloat(a.v) IN
              IF ~f.ok THEN Raise(st, f.exc)
              ELSE Emit(st, Update("set", s.metric, <<>>, f.v))

\* local = re.sub(reg, "", item[local])
ExecReSub(st, item, s) ==
    LET r == ReSubItem(item, s.local) IN
    IF ~r.ok THEN Raise(st, r.exc) ELSE Assign(st, s.local, r.v)

\* self.<metric>.labels(*labels): the label values are evaluated left to
\* right, then labels() makes the child if it is not there yet.
ExecLabels(st, item, s) ==
    LET given == [i \in 1..Len(s.labels) |-> Eval(st, item, s.labels[i])] IN
    IF ~FirstThrown(given).ok THEN Raise(st, FirstThrown(given).exc)
    ELSE IF Len(given) # Len(LabelNames(s.metric)) THEN Raise(st, "ValueError")
    ELSE Emit(st, Update("child", s.metric,
                         [i \in 1..Len(given) |-> LabelText(given[i].v)],
                         InitialValue(s.metric)))

\* The label values of the child the latest labels() gave.
Child(st) == st.ups[Len(st.ups)].labels

\* ....set(value) on that child: value is evaluated once the child is there.
ExecChildSet(st, item, s) ==
    LET value == Eval(st, item, s.value) IN
    IF s.metric \in Infos THEN Raise(st, "AttributeError")
    ELSE IF ~value.ok THEN Raise(st, value.exc)
    ELSE LET f == ToFloat(value.v) IN
         IF ~f.ok THEN Raise(st, f.exc)
         ELSE Emit(st, Update("set", s.metric, Child(st), f.v))

\* ....info({field: value}) on that child, or on the metric itself: info
\* refuses a field named like one of the labelnames.
ExecInfo(st, item, s, labels) ==
    LET value == Eval(st, item, s.value)
        names == LabelNames(s.metric)
    IN  IF s.metric \in Gauges THEN Raise(st, "AttributeError")
        ELSE IF ~value.ok THEN Raise(st, value.exc)
        ELSE IF s.field \in {names[i] : i \in 1..Len(names)}
             THEN Raise(st, "ValueError")
        ELSE Emit(st, Update("info", s.metric, labels,
                             DictSet(EmptyDict, K(s.field), value.v)))

\* One statement.
Exec(st, item, s) ==
    CASE s.k = "set" -> ExecSet(st, item, s)
      [] s.k = "resub" -> ExecReSub(st, item, s)
      [] s.k = "labels.set" ->
            LET st1 == ExecLabels(st, item, s) IN
            IF Running(st1) THEN ExecChildSet(st1, item, s) ELSE st1
      [] s.k = "labels.info" ->
            LET st1 == ExecLabels(st, item, s) IN
            IF Running(st1) THEN ExecInfo(st1, item, s, Child(st1)) ELSE st1
      [] s.k = "info" -> ExecInfo(st, item, s, <<>>)

RECURSIVE Run(_, _, _)
\* The statements one after the other, up to the first exception.
Run(st, item, stmts) ==
    IF stmts = <<>> \/ ~Running(st) THEN st
    ELSE Run(Exec(st, item, Head(stmts)), item, Tail(stmts))

-----------------------------------------------------------------------------
(* The loop body of fetch, lines 219-305: seven ifs, one after the other *)

\* key in item.keys()
In(item, key) == K(key) \in DOMAIN item.o

\* Lines 222-224
RebuildMetrics(item) ==
    IF In(item, "queued_partitions")
    THEN << SetItem("tenzir_rebuild_partitions", "partitions"),
            SetItem("tenzir_rebuild_queued_partitions", "queued_partitions") >>
    ELSE <<>>

\* Lines 227-230
CpuMetrics(item) ==
    IF In(item, "loadavg_1m")
    THEN << SetItem("tenzir_loadavg_1m", "loadavg_1m"),
            SetItem("tenzir_loadavg_5m", "loadavg_5m"),
            SetItem("tenzir_loadavg_15m", "loadavg_15m") >>
    ELSE <<>>

\* Lines 233-236
MemoryMetrics(item) ==
    IF In(item, "total_bytes") /\ ~In(item, "path")
    THEN << SetItem("tenzir_memory_total_bytes", "total_bytes"),
            SetItem("tenzir_memory_used_bytes", "used_bytes"),
            SetItem("tenzir_memory_free_bytes", "free_bytes") >>
    ELSE <<>>

\* Lines 239-243
ProcessMetrics(item) ==
    IF In(item, "swap_space_usage")
    THEN << SetItem("tenzir_swap_space_usage", "swap_space_usage"),
            SetItem("tenzir_open_fds", "open_fds"),
            SetItem("tenzir_current_memory_usage", "current_memory_usage"),
            SetItem("tenzir_peak_memory_usage", "peak_memory_usage") >>
    ELSE <<>>

\* Lines 246-249: set is called on the disk gauges themselves, which were
\* declared with the labelname path.
DiskMetrics(item) ==
    IF In(item, "path")
    THEN << SetItem("tenzir_disk_total_bytes", "total_bytes"),
            SetItem("tenzir_disk_used_bytes", "used_bytes"),
            SetItem("tenzir_disk_free_bytes", "free_bytes") >>
    ELSE <<>>

\* Lines 252-255: set is called on the two Info metrics.
IngestMetrics(item) ==
    IF In(item, "schema_id") /\ ~In(item, "run")
    THEN << SetItem("tenzir_ingest_schema", "schema"),
            SetItem("tenzir_ingest_schema_id", "schema_id"),
            SetItem("tenzir_ingest_events", "events") >>
    ELSE <<>>

\* Lines 258-305
OperatorMetrics(item) ==
    LET pid  == <<At(<<"pipeline_id">>)>>
        inu  == At(<<"input", "unit">>)
        outu == At(<<"output", "unit">>)
    IN
    IF In(item, "pipeline_id") /\ In(item, "transformation")
    THEN << ReSubLocal("duration"),
            ReSubLocal("starting_duration"),
            ReSubLocal("processing_duration"),
            ReSubLocal("scheduled_duration"),
            ReSubLocal("running_duration"),
            ReSubLocal("paused_duration"),
            LabelsSet("tenzir_operator_run", pid, Local("duration")),
            LabelsSet("tenzir_operator_duration", pid,
                      Local("starting_duration")),
            LabelsSet("tenzir_operator_starting_duration", pid,
                      Local("starting_duration")),
            LabelsSet("tenzir_operator_processing_duration", pid,
                      Local("processing_duration")),
            LabelsSet("tenzir_operator_scheduled_duration", pid,
                      Local("scheduled_duration")),
            LabelsSet("tenzir_operator_running_duration", pid,
                      Local("running_duration")),
            LabelsSet("tenzir_operator_paused_duration", pid,
                      Local("paused_duration")),
            LabelsSet("tenzir_operator_input_elements", pid \o <<inu>>,
                      At(<<"input", "elements">>)),
            LabelsSet("tenzir_operator_output_elements", pid \o <<outu>>,
                      At(<<"output", "elements">>)),
            LabelsSet("tenzir_operator_input_bytes", pid \o <<inu>>,
                      At(<<"input", "approx_bytes">>)),
            LabelsSet("tenzir_operator_output_bytes", pid \o <<outu>>,
                      At(<<"output", "approx_bytes">>)),
            LabelsInfo("tenzir_operator_input_unit", pid,
                       "tenzir_operator_input_unit", inu),
            LabelsInfo("tenzir_operator_output_unit", pid,
                       "tenzir_operator_input_unit", outu),
            InfoOf("tenzir_operator_pipeline_id", "pipeline_id",
                   At(<<"pipeline_id">>)) >>
    ELSE <<>>

\* The statements the loop body runs on a dict: those of every if whose
\* condition holds, in the order of the ifs.
Body(item) ==
    RebuildMetrics(item) \o CpuMetrics(item) \o MemoryMetrics(item)
        \o ProcessMetrics(item) \o DiskMetrics(item) \o IngestMetrics(item)
        \o OperatorMetrics(item)

\* Lines 219-305 for one item: item.keys() needs a dict.
MapItem(item) ==
    IF item.t # "obj" THEN Raise(Fresh, "AttributeError")
    ELSE Run(Fresh, item, Body(item))

-----------------------------------------------------------------------------
(* What a client writes into a request body *)

RECURSIVE Dump(_)
RECURSIVE DumpMembers(_, _)
RECURSIVE DumpElements(_)

\* The JSON text of a value, written compactly.
Dump(v) ==
    CASE v.t = "num" -> NatDigits(v.n)
      [] v.t = "str" -> <<Quote>> \o v.s \o <<Quote>>
      [] v.t = "obj" -> <<"{">> \o DumpMembers(v.o, DOMAIN v.o) \o <<"}">>
      [] v.t = "arr" -> <<"[">> \o DumpElements(v.a) \o <<"]">>

DumpMembers(d, keys) ==
    IF keys = {} THEN <<>>
    ELSE LET k == CHOOSE k \in keys : TRUE IN
         <<Quote>> \o k \o <<Quote, ":">> \o Dump(d[k])
             \o (IF keys = {k} THEN <<>> ELSE <<",">>)
             \o DumpMembers(d, keys \ {k})

DumpElements(a) ==
    IF a = <<>> THEN <<>>
    ELSE Dump(Head(a)) \o (IF Len(a) = 1 THEN <<>> ELSE <<",">>)
             \o DumpElements(Tail(a))

RECURSIVE EncodeBody(_, _)
\* The object literals of a batch back to back, or one per line.
EncodeBody(records, perLine) ==
    IF records = <<>> THEN <<>>
    ELSE Dump(Head(records)) \o (IF perLine THEN <<NL>> ELSE <<>>)
             \o EncodeBody(Tail(records), perLine)

\* The dict with the given fields, each a pair of a key and a value.
MkObj(fields) ==
    Obj([k \in {K(fields[i][1]) : i \in 1..Len(fields)} |->
            fields[CHOOSE i \in 1..Len(fields) : K(fields[i][1]) = k][2]])

\* A str of one word.
Word(w) == Str(<<w>>)

RebuildRecord ==
    MkObj(<< <<"partitions", Num(1)>>, <<"queued_partitions", Num(2)>> >>)

RebuildNoPartitions == MkObj(<< <<"queued_partitions", Num(2)>> >>)

CpuRecord ==
    MkObj(<< <<"loadavg_1m", Num(3)>>, <<"loadavg_5m", Num(4)>>,
             <<"loadavg_15m", Num(5)>> >>)

CpuNoLoadavg5m ==
    MkObj(<< <<"loadavg_1m", Num(3)>>, <<"loadavg_15m", Num(5)>> >>)

RebuildCpuRecord ==
    MkObj(<< <<"partitions", Num(1)>>, <<"queued_partitions", Num(2)>>,
             <<"loadavg_1m", Num(3)>>, <<"loadavg_5m", Num(4)>>,
             <<"loadavg_15m", Num(5)>> >>)

MemoryRecord ==
    MkObj(<< <<"total_bytes", Num(100)>>, <<"used_bytes", Num(40)>>,
             <<"free_bytes", Num(60)>> >>)

ProcessRecord ==
    MkObj(<< <<"swap_space_usage", Num(8)>>, <<"open_fds", Num(9)>>,
             <<"current_memory_usage", Num(10)>>,
             <<"peak_memory_usage", Num(11)>> >>)

DiskRecord ==
    MkObj(<< <<"path", Word("/data")>>, <<"total_bytes", Num(500)>>,
             <<"used_bytes", Num(200)>>, <<"free_bytes", Num(300)>> >>)

IngestRecord ==
    MkObj(<< <<"schema", Word("suricata.flow")>>, <<"schema_id", Word("4fa1")>>,
             <<"events", Num(12)>> >>)

OperatorFields ==
    << <<"pipeline_id", Word("p1")>>, <<"transformation", Num(1)>>,
       <<"run", Num(7)>>,
       <<"duration", Str(<<"1", ".", "5", "m", "s">>)>>,
       <<"starting_duration", Str(<<"2", "m", "s">>)>>,
       <<"processing_duration", Str(<<"3", "s">>)>>,
       <<"scheduled_duration", Str(<<"4", "u", "s">>)>>,
       <<"running_duration", Str(<<"5", "m", "s">>)>>,
       <<"paused_duration", Str(<<"6", "m", "i", "n">>)>>,
       <<"input", MkObj(<< <<"unit", Word("events")>>,
                           <<"elements", Num(13)>>,
                           <<"approx_bytes", Num(14)>> >>)>>,
       <<"output", MkObj(<< <<"unit", Word("bytes")>>,
                            <<"elements", Num(15)>>,
                            <<"approx_bytes", Num(16)>> >>)>> >>

OperatorRecord == MkObj(OperatorFields)

OperatorNoRunningDuration ==
    MkObj(SelectSeq(OperatorFields, LAMBDA f : f[1] # "running_duration"))

UnknownRecord == MkObj(<< <<"a", Num(1)>> >>)

\* The records a client sends.
Records ==
    {RebuildRecord, RebuildNoPartitions, CpuRecord, CpuNoLoadavg5m,
     RebuildCpuRecord, MemoryRecord, ProcessRecord, DiskRecord, IngestRecord,
     OperatorRecord, OperatorNoRunningDuration, UnknownRecord}

\* The records two requests in flight together are drawn from: one that is
\* mapped in full, one whose mapping raises before any update, one whose
\* mapping raises after an update, and one of no shape.
RaceRecords == {MemoryRecord, DiskRecord, CpuNoLoadavg5m, UnknownRecord}

\* The batches of at most n of the records.
Batches(records, n) == UNION {[1..k -> records] : k \in 0..n}

\* A body of object literals: what was sent, and the bytes of the body.
Wellformed(records, perLine) ==
    [wellformed |-> TRUE, records |-> records,
     body |-> [utf8 |-> TRUE, text |-> EncodeBody(records, perLine)]]

\* A body that is no run of object literals.
Other(utf8, text) ==
    [wellformed |-> FALSE, records |-> <<>>,
     body |-> [utf8 |-> utf8, text |-> text]]

\* Bodies of other kinds: an object cut short, a brace too many, a number,
\* and bytes that are not UTF-8.
OtherInputs ==
    {Other(TRUE, <<"{", Quote, "a", Quote, ":", "1">>),
     Other(TRUE, Dump(CpuRecord) \o <<"}">>),
     Other(TRUE, <<"7">>),
     Other(FALSE, <<>>)}

\* The request bodies holding at most n of the records, in the layouts given
\* (TRUE: one object per line, FALSE: back to back).
Inputs(records, n, layouts) ==
    {Wellformed(b, perLine) : b \in Batches(records, n), perLine \in layouts}
        \cup OtherInputs

-----------------------------------------------------------------------------
(* fetch, the view function of the one AppMetrics instance (lines 315-319), *)
(* run by one thread per request                                           *)

Requests == 1..2

NoResult == [kind |-> "none", what |-> ""]

Returned(value) == [kind |-> "return", what |-> value]

Raised(exc) == [kind |-> "raise", what |-> exc]

\* json.dumps({"error": 1})
ErrorJson == "{\"error\": 1}"

\* The dict of line 310, as the response shows it.
EmptyJson == "{}"

NothingPushed == [received |-> FALSE, samples |-> <<>>]

SplitIdle == [records |-> <<>>, text |-> <<>>]

NormIdle == [literal |-> <<>>, unit |-> <<>>]

NotDone == [done |-> FALSE]

NotRead == [read |-> FALSE, lines |-> <<>>]

\* No request at all.
FetchIdle ==
    /\ pc = [t \in Requests |-> "absent"]
    /\ body = [t \in Requests |-> [utf8 |-> TRUE, text |-> <<>>]]
    /\ sent = [t \in Requests |-> [wellformed |-> TRUE, records |-> <<>>]]
    /\ status_data = <<>>
    /\ parsed_from = [t \in Requests |-> NotRead]
    /\ parsed_data = [t \in Requests |-> <<>>]
    /\ idx = [t \in Requests |-> 0]
    /\ events = [t \in Requests |-> <<>>]
    /\ result = [t \in Requests |-> NoResult]
    /\ registry = InitialRegistry
    /\ gateway = NothingPushed

PureIdle ==
    /\ split_in = SplitIdle
    /\ split_out = NotDone
    /\ norm_in = NormIdle
    /\ norm_out = NotDone

\* What the request has of an input.
SentOf(in) == [wellformed |-> in.wellformed, records |-> in.records]

NoBody == [utf8 |-> TRUE, text |-> <<>>]

NoneSent == [wellformed |-> TRUE, records |-> <<>>]

\* One request arrives, with any body.
OneRequest ==
    /\ \E in1 \in Inputs(Records, MaxRecords, BOOLEAN) :
          /\ body = <<in1.body, NoBody>>
          /\ sent = <<SentOf(in1), NoneSent>>
    /\ pc = <<"start", "absent">>

\* Two requests arrive together, each with its body.
TwoRequests ==
    /\ \E in1 \in Inputs(RaceRecords, MaxRecords, {FALSE}) :
         \E in2 \in Inputs(RaceRecords, MaxRecords - Len(in1.records), {FALSE}) :
            /\ body = <<in1.body, in2.body>>
            /\ sent = <<SentOf(in1), SentOf(in2)>>
    /\ pc = <<"start", "start">>

\* After __init__ and add_url_rule: no request has entered fetch.
Init ==
    /\ OneRequest \/ TwoRequests
    /\ status_data = <<>>
    /\ parsed_from = [t \in Requests |-> NotRead]
    /\ parsed_data = [t \in Requests |-> <<>>]
    /\ idx = [t \in Requests |-> 0]
    /\ events = [t \in Requests |-> <<>>]
    /\ result = [t \in Requests |-> NoResult]
    /\ registry = InitialRegistry
    /\ gateway = NothingPushed
    /\ PureIdle

\* Line 208, the body decodes: self.status_data is assigned.
Store(t) ==
    /\ pc[t] = "start"
    /\ body[t].utf8
    /\ status_data' = SplitLines(body[t].text)
    /\ pc' = [pc EXCEPT ![t] = "stored"]
    /\ UNCHANGED <<body, sent, parsed_from, parsed_data, idx, events, result,
                   registry, gateway, split_in, split_out, norm_in, norm_out>>

\* Lines 208-211, the body does not decode.
DecodeError(t) ==
    /\ pc[t] = "start"
    /\ ~body[t].utf8
    /\ result' = [result EXCEPT ![t] = Returned(ErrorJson)]
    /\ pc' = [pc EXCEPT ![t] = "done"]
    /\ UNCHANGED <<body, sent, status_data, parsed_from, parsed_data, idx,
                   events, registry, gateway, split_in, split_out, norm_in,
                   norm_out>>

\* Lines 214-216: self.status_data is read and parsed, outside any try.
Parse(t) ==
    /\ pc[t] = "stored"
    /\ parsed_from' = [parsed_from EXCEPT ![t] = [read |-> TRUE, lines |-> status_data]]
    /\ LET r == SplitStep(status_data) IN
       IF r.ok
       THEN /\ parsed_data' = [parsed_data EXCEPT ![t] = r.val.a]
            /\ pc' = [pc EXCEPT ![t] = "loop"]
            /\ UNCHANGED result
       ELSE /\ result' = [result EXCEPT ![t] = Raised(r.exc)]
            /\ pc' = [pc EXCEPT ![t] = "done"]
            /\ UNCHANGED parsed_data
    /\ UNCHANGED <<body, sent, status_data, idx, events, registry, gateway,
                   split_in, split_out, norm_in, norm_out>>

\* What one run of the loop body leaves in the request's history.
Mapped(i, item, st) ==
    [op |-> "map", i |-> i, item |-> item, ups |-> st.ups, exc |-> st.exc]

Pushed(i) == [op |-> "push", i |-> i]

\* Line 218: the for loop has taken i of the items and has no more to take.
LoopDone(i, data) == i >= Len(data)

\* A loop body that forgets the push of line 307 and goes straight back to
\* the for loop: the fault the push-per-record property has to tell from the
\* code.
AfterBodyNoPush(st) == IF Running(st) THEN "loop" ELSE "done"

\* Where a request goes after the loop body on one item: on to the push of
\* line 307, or out of fetch with the exception.
AfterBody(st) == IF Running(st) THEN "push" ELSE "done"

\* Lines 218-305: the for loop takes the next item and the loop body runs on
\* it.  The updates reach the registry one by one, up to the first
\* exception, which nothing in fetch catches.
LoopBody(t) ==
    /\ pc[t] = "loop"
    /\ ~LoopDone(idx[t], parsed_data[t])
    /\ LET i    == idx[t] + 1
           item == parsed_data[t][i]
           st   == MapItem(item)
       IN  /\ idx' = [idx EXCEPT ![t] = i]
           /\ registry' = ApplyAll(registry, st.ups)
           /\ events' = [events EXCEPT ![t] = Append(@, Mapped(i, item, st))]
           /\ pc' = [pc EXCEPT ![t] = AfterBody(st)]
           /\ result' = [result EXCEPT ![t] =
                            IF Running(st) THEN @ ELSE Raised(st.exc)]
    /\ UNCHANGED <<body, sent, status_data, parsed_from, parsed_data,
                   gateway, split_in, split_out, norm_in, norm_out>>

\* Lines 307-309: the registry as it is now goes to the gateway.
Push(t) ==
    /\ pc[t] = "push"
    /\ gateway' = [received |-> TRUE, samples |-> registry]
    /\ events' = [events EXCEPT ![t] = Append(@, Pushed(idx[t]))]
    /\ pc' = [pc EXCEPT ![t] = "loop"]
    /\ UNCHANGED <<body, sent, status_data, parsed_from, parsed_data, idx,
                   result, registry, split_in, split_out, norm_in, norm_out>>

\* Lines 307-309, the gateway cannot be reached: push_to_gateway raises.
PushError(t) ==
    /\ pc[t] = "push"
    /\ result' = [result EXCEPT ![t] = Raised("URLError")]
    /\ pc' = [pc EXCEPT ![t] = "done"]
    /\ UNCHANGED <<body, sent, status_data, parsed_from, parsed_data, idx,
                   events, registry, gateway, split_in, split_out, norm_in,
                   norm_out>>

\* Line 310, after the last item.
Return(t) ==
    /\ pc[t] = "loop"
    /\ LoopDone(idx[t], parsed_data[t])
    /\ result' = [result EXCEPT ![t] = Returned(EmptyJson)]
    /\ pc' = [pc EXCEPT ![t] = "done"]
    /\ UNCHANGED <<body, sent, status_data, parsed_from, parsed_data, idx,
                   events, registry, gateway, split_in, split_out, norm_in,
                   norm_out>>

Next ==
    \E t \in Requests :
        \/ Store(t)
        \/ DecodeError(t)
        \/ Parse(t)
        \/ LoopBody(t)
        \/ Push(t)
        \/ PushError(t)
        \/ Return(t)

Spec == Init /\ [][Next]_vars

-----------------------------------------------------------------------------
(* The split step of fetch on its own: lines 208 and 214-216 on the body   *)
(* of a batch of small objects                                             *)

\* Objects with a nested object, with an empty one, and with string values
\* that hold braces.
SplitObjects ==
    {Obj(EmptyDict),
     UnknownRecord,
     MkObj(<< <<"a", Word("x")>> >>),
     MkObj(<< <<"a", Str(<<"}", "{">>)>> >>),
     MkObj(<< <<"a", MkObj(<< <<"b", Num(1)>> >>)>> >>),
     MkObj(<< <<"a", Obj(EmptyDict)>> >>),
     MkObj(<< <<"a", Num(1)>>, <<"b", Str(<<"{", "x", "}">>)>> >>)}

InitSplit ==
    /\ FetchIdle
    /\ \E b \in Batches(SplitObjects, MaxSplitObjects) : \E perLine \in BOOLEAN :
          split_in = [records |-> b, text |-> EncodeBody(b, perLine)]
    /\ split_out = NotDone
    /\ norm_in = NormIdle
    /\ norm_out = NotDone

Split ==
    /\ ~split_out.done
    /\ split_out' = [done |-> TRUE, result |-> SplitStep(SplitLines(split_in.text))]
    /\ UNCHANGED <<fetchVars, split_in, norm_in, norm_out>>

NextSplit == Split

SpecSplit == InitSplit /\ [][NextSplit]_vars

-----------------------------------------------------------------------------
(* The normalization of lines 259-265 on its own, on duration tokens: a    *)
(* numeric literal followed by a unit                                      *)

Signs == {<<>>, <<"-">>}

IntParts == {<<"7">>, <<"1", "2">>}

Fractions == {<<>>, <<".", "5">>}

Exponents == {<<>>, <<"e", "3">>, <<"E", "3">>, <<"e", "-", "3">>}

NumericLiterals ==
    {sg \o ip \o fr \o ex :
        sg \in Signs, ip \in IntParts, fr \in Fractions, ex \in Exponents}

DurationUnits ==
    {<<"s">>, <<"m", "s">>, <<"u", "s">>, <<"m", "i", "n">>, <<"M", "S">>,
     <<"M", "s">>}

InitNorm ==
    /\ FetchIdle
    /\ split_in = SplitIdle
    /\ split_out = NotDone
    /\ \E lit \in NumericLiterals : \E u \in DurationUnits :
          norm_in = [literal |-> lit, unit |-> u]
    /\ norm_out = NotDone

Normalize ==
    /\ ~norm_out.done
    /\ norm_out' = [done |-> TRUE,
                    result |-> ReSub(Str(norm_in.literal \o norm_in.unit))]
    /\ UNCHANGED <<fetchVars, split_in, split_out, norm_in>>

NextNorm == Normalize

SpecNorm == InitNorm /\ [][NextNorm]_vars

-----------------------------------------------------------------------------
(* The vocabulary of the properties: shapes, their discriminators and      *)
(* their fields, as the specification of the exporter words them           *)

ShapeOrder ==
    <<"rebuild", "cpu", "memory", "process", "disk", "ingest", "operator">>

Discriminates(shape, item) ==
    CASE shape = "rebuild"  -> In(item, "queued_partitions")
      [] shape = "cpu"      -> In(item, "loadavg_1m")
      [] shape = "memory"   -> In(item, "total_bytes") /\ ~In(item, "path")
      [] shape = "process"  -> In(item, "swap_space_usage")
      [] shape = "disk"     -> In(item, "path")
      [] shape = "ingest"   -> In(item, "schema_id") /\ ~In(item, "pipeline_id")
      [] shape = "operator" -> In(item, "pipeline_id")

\* The first shape, in the order, whose discriminator holds; "none" if none.
ClaimedShape(item) ==
    LET hits == {i \in 1..Len(ShapeOrder) : Discriminates(ShapeOrder[i], item)} IN
    IF hits = {} THEN "none"
    ELSE ShapeOrder[CHOOSE i \in hits : \A j \in hits : i <= j]

ShapeMetrics(shape) ==
    CASE shape = "rebuild"  -> {"tenzir_rebuild_partitions",
                                "tenzir_rebuild_queued_partitions"}
      [] shape = "cpu"      -> {"tenzir_loadavg_1m", "tenzir_loadavg_5m",
                                "tenzir_loadavg_15m"}
      [] shape = "memory"   -> {"tenzir_memory_total_bytes",
                                "tenzir_memory_used_bytes",
                                "tenzir_memory_free_bytes"}
      [] shape = "process"  -> {"tenzir_swap_space_usage", "tenzir_open_fds",
                                "tenzir_current_memory_usage",
                                "tenzir_peak_memory_usage"}
      [] shape = "disk"     -> DiskGauges
      [] shape = "ingest"   -> {"tenzir_ingest_schema", "tenzir_ingest_schema_id",
                                "tenzir_ingest_events"}
      [] shape = "operator" -> OperatorDurationGauges \cup OperatorUnitGauges
                                   \cup OperatorUnitInfos
                                   \cup {"tenzir_operator_pipeline_id"}
      [] shape = "none"     -> {}

DurationFields ==
    {"run", "duration", "starting_duration", "processing_duration",
     "scheduled_duration", "running_duration", "paused_duration"}

ShapeFields(shape) ==
    CASE shape = "rebuild"  -> {"partitions", "queued_partitions"}
      [] shape = "cpu"      -> {"loadavg_1m", "loadavg_5m", "loadavg_15m"}
      [] shape = "memory"   -> {"total_bytes", "used_bytes", "free_bytes"}
      [] shape = "process"  -> {"swap_space_usage", "open_fds",
                                "current_memory_usage", "peak_memory_usage"}
      [] shape = "disk"     -> {"path", "total_bytes", "used_bytes", "free_bytes"}
      [] shape = "ingest"   -> {"schema", "schema_id", "events"}
      [] shape = "operator" -> DurationFields \cup {"pipeline_id", "input", "output"}
      [] shape = "none"     -> {}

\* The record matches a shape and lacks a field the shape requires.
Deficient(item) ==
    /\ item.t = "obj"
    /\ \E f \in ShapeFields(ClaimedShape(item)) : ~In(item, f)

\* The runs of the loop body in the history of request t.
MapEvents(t) == {k \in 1..Len(events[t]) : events[t][k].op = "map"}

PushEvents(t) == {k \in 1..Len(events[t]) : events[t][k].op = "push"}

\* The samples a run of the loop body wrote: metric, label values, value.
Written(ups) ==
    {[metric |-> ups[k].metric, labels |-> ups[k].labels, value |-> ups[k].value] :
        k \in {j \in 1..Len(ups) : ups[j].op \in {"set", "info"}}}

\* The metrics a run of the loop body touched, children made included.
Touched(ups) == {ups[k].metric : k \in 1..Len(ups)}

\* Request t is the only one and has parsed what it was sent.
Alone(t) == \A u \in Requests \ {t} : pc[u] = "absent"

-----------------------------------------------------------------------------
(* C1 *)

\* C1: every record fetch handles yields updates of one shape only, the
\* first shape in the order rebuild, cpu, memory, process, disk, ingest,
\* operator whose discriminator holds for it; a record of two shapes yields
\* updates of the earlier only, a record of no shape yields none.
C1_FirstMatchOnly ==
    \A t \in Requests : \A k \in MapEvents(t) :
        LET e == events[t][k] IN
        e.item.t = "obj" =>
            Touched(e.ups) \subseteq ShapeMetrics(ClaimedShape(e.item))

-----------------------------------------------------------------------------
(* C2 *)

\* C2: in a batch where a record matches a shape but lacks a field of the
\* shape, every later record is still handled: once fetch is over (the
\* gateway having answered), the loop body has run on each record after the
\* deficient one.
C2_BatchContinues ==
    \A t \in Requests :
        (/\ Alone(t)
         /\ pc[t] = "done"
         /\ sent[t].wellformed
         /\ result[t] # Raised("URLError"))
        => \A i \in 1..Len(sent[t].records) :
              Deficient(sent[t].records[i])
              => \A j \in (i + 1)..Len(sent[t].records) :
                    \E k \in MapEvents(t) :
                        /\ events[t][k].i = j
                        /\ events[t][k].item = sent[t].records[j]

-----------------------------------------------------------------------------
(* C3 *)

\* C3: handling a record that matches a shape but lacks a field of the shape
\* changes no sample of the registry: every gauge and info metric has after
\* the record the value it had before, whichever field is missing.
C3_NoPartialEmission ==
    [][\A t \in Requests :
          (LoopBody(t) /\ Deficient(parsed_data[t][idx'[t]]))
          => registry' = registry]_vars

-----------------------------------------------------------------------------
(* C4 *)

\* C4: when the body of a request, repaired and wrapped, is not valid JSON,
\* fetch handles no record, pushes nothing and returns the result that
\* signals one error; it neither raises nor returns the success result.
C4_ParseErrorReturnsError ==
    \A t \in Requests :
        (/\ pc[t] = "done"
         /\ parsed_from[t].read
         /\ parsed_from[t].lines = SplitLines(body[t].text)
         /\ ~SplitStep(parsed_from[t].lines).ok)
        => /\ result[t] = Returned(ErrorJson)
           /\ events[t] = <<>>

-----------------------------------------------------------------------------
(* C5 *)

DiskFieldOf ==
    [metric \in DiskGauges |->
        CASE metric = "tenzir_disk_total_bytes" -> "total_bytes"
          [] metric = "tenzir_disk_used_bytes" -> "used_bytes"
          [] metric = "tenzir_disk_free_bytes" -> "free_bytes"]

\* The three disk samples the record asks for.
DiskSamples(item) ==
    {[metric |-> metric,
      labels |-> <<LabelText(item.o[K("path")])>>,
      value  |-> ToFloat(item.o[K(DiskFieldOf[metric])]).v] : metric \in DiskGauges}

\* C5: a record with path, total_bytes, used_bytes and free_bytes yields
\* exactly the three disk updates, each labelled with the record's path and
\* carrying the record's byte value, and no memory update.
C5_DiskUpdates ==
    \A t \in Requests : \A k \in MapEvents(t) :
        LET e == events[t][k] IN
        (e.item.t = "obj" /\ \A f \in ShapeFields("disk") : In(e.item, f))
        => /\ Written(e.ups) = DiskSamples(e.item)
           /\ Touched(e.ups) \cap ShapeMetrics("memory") = {}

-----------------------------------------------------------------------------
(* C6 *)

IsLetter(c) == c \in LowerCase \cup UpperCase

RECURSIVE TrimUnit(_)
\* The text without the letters it ends in.
TrimUnit(s) ==
    IF s # <<>> /\ IsLetter(s[Len(s)]) THEN TrimUnit(SubSeq(s, 1, Len(s) - 1))
    ELSE s

\* The number a duration field stands for, its unit stripped.
DurationNumber(v) ==
    IF v.t = "str" THEN ParseFloat(TrimUnit(v.s)) ELSE ToFloat(v)

OperatorGaugeOf ==
    [f \in DurationFields |->
        CASE f = "run" -> "tenzir_operator_run"
          [] f = "duration" -> "tenzir_operator_duration"
          [] f = "starting_duration" -> "tenzir_operator_starting_duration"
          [] f = "processing_duration" -> "tenzir_operator_processing_duration"
          [] f = "scheduled_duration" -> "tenzir_operator_scheduled_duration"
          [] f = "running_duration" -> "tenzir_operator_running_duration"
          [] f = "paused_duration" -> "tenzir_operator_paused_duration"]

\* C6: for an operator record with all its fields, the updates read back
\* give each of run, duration and the five *_duration fields as a number
\* under the gauge of the same name, with the pipeline_id of the record as
\* the pipeline_id label.
C6_OperatorRoundTrip ==
    \A t \in Requests : \A k \in MapEvents(t) :
        LET e == events[t][k] IN
        (/\ e.item.t = "obj"
         /\ ClaimedShape(e.item) = "operator"
         /\ ~Deficient(e.item))
        => \A f \in DurationFields :
              [metric |-> OperatorGaugeOf[f],
               labels |-> <<LabelText(e.item.o[K("pipeline_id")])>>,
               value  |-> DurationNumber(e.item.o[K(f)]).v] \in Written(e.ups)

-----------------------------------------------------------------------------
(* C7 *)

\* C7: for a body of N >= 0 object literals back to back or one per line, the
\* split step yields exactly N objects, the i-th equal to the i-th literal,
\* also when an object holds a nested object or a string with "}{" in it.
C7_SplitYieldsTheObjects ==
    split_out.done =>
        /\ split_out.result.ok
        /\ split_out.result.val = Arr(split_in.records)

-----------------------------------------------------------------------------
(* C8 *)

\* C8: with two requests in flight on the one AppMetrics instance, under
\* every interleaving each request parses the lines of its own body, never
\* those the other request stored.
C8_ParsesOwnBody ==
    \A t \in Requests :
        parsed_from[t].read => parsed_from[t].lines = SplitLines(body[t].text)

-----------------------------------------------------------------------------
(* C9 *)

\* The history of a request after n full rounds of the loop: the loop body
\* on item 1, push, the loop body on item 2, push, ...
RoundsOf(t, n) ==
    /\ Len(events[t]) = 2 * n
    /\ \A i \in 1..n :
          /\ events[t][2 * i - 1].op = "map"
          /\ events[t][2 * i - 1].i = i
          /\ events[t][2 * i - 1].item = parsed_data[t][i]
          /\ events[t][2 * i - 1].exc = "none"
          /\ events[t][2 * i] = Pushed(i)

\* C9 as stated: every batch that parses, the one of zero records included,
\* has seen at least one push when fetch returns.
C9_PushAtLeastOnce ==
    \A t \in Requests :
        result[t] = Returned(EmptyJson) => PushEvents(t) # {}

\* C9 as amended: when fetch returns from a batch of N parsed records, it has
\* pushed exactly N times, once after the updates of each record and before
\* those of the next, in input order; at least once if N >= 1, never if
\* N = 0.
C9_PushPerRecord ==
    \A t \in Requests :
        result[t] = Returned(EmptyJson) =>
            /\ RoundsOf(t, Len(parsed_data[t]))
            /\ Cardinality(PushEvents(t)) = Len(parsed_data[t])

\* A request has returned from a batch of two records, each pushed in turn.
C9_Witness ==
    \E t \in Requests :
        /\ result[t] = Returned(EmptyJson)
        /\ Len(parsed_data[t]) = 2
        /\ Cardinality(PushEvents(t)) = 2
        /\ gateway.received

-----------------------------------------------------------------------------
(* C10 *)

\* C10: the normalization of a duration token, a numeric literal followed by
\* a unit of letters, gives back the literal, character for character: an
\* exponent marker stays, a unit in upper or mixed case goes.
C10_StripsOnlyTheUnit ==
    norm_out.done => norm_out.result = Fine(Str(norm_in.literal))

====
